---- MODULE Spec2Model ----
(***************************************************************************)
(* API-key authentication core of charlotte-api (src/src/auth.py):         *)
(* generate_api_key, validate_api_key, user_for_api_key, user_from_jwt and *)
(* the requires_auth guard, run against a user-record store whose rows are *)
(* created, re-keyed and removed by the surrounding application.           *)
(*                                                                         *)
(* Values.  A User object is its id (1..MaxUsers); Python None is 0.  An   *)
(* API key is a token 1..MaxSecret, '' is 0.  A header that is not in      *)
(* request.headers is -1.  A digest is a number above HashBase, so that no *)
(* digest is a token.  An exception is the name of its class, "" when the  *)
(* call returned.                                                          *)
(***************************************************************************)
EXTENDS Integers, Sequences, FiniteSets, TLC

\* Bounds of the model.
MaxUsers == 2
MaxSecret == 2

\* Python values.
None == 0
Empty == 0
Absent == -1
NoRow == -1

\* Digests live above every token.
HashBase == 100

\* The protected resources: /api/user, /api/links, /api/links/<id>.
NumUrls == 3

\* Status codes.
DefaultStatus == 401
Forbidden == 403
Ok == 200
ServerError == 500

AuthMessage == "Authorization is required to access this resource"

UserIds == 1..MaxUsers
Secrets == 1..MaxSecret
Urls == 1..NumUrls
\* What request.headers may hold for x-api-key and for Authorization.
KeyHeaders == {Absent, Empty} \cup Secrets
JwtHeaders == {Absent, Empty, 1}

VARIABLES store, issued, last, fresh

vars == <<store, issued, last, fresh>>

\* sha256(s.encode('utf-8')).hexdigest(): deterministic, no two tokens of the
\* bounded set share a digest, and no digest is a token.
sha256(s) == HashBase + (MaxSecret + 1 - s)

Hashes == {sha256(s) : s \in Secrets}

\* token_hex(32) gave tok.
generate_api_key(tok) ==
    [api_key |-> tok, hashed_key |-> sha256(tok)]

\* AuthError(message): status_code defaults to 401.
AuthError(message) ==
    [message |-> message, status_code |-> DefaultStatus]

\* User.query.get(user_id): the row, or None; raises when the store is faulty.
User_query_get(db, user_id, fault) ==
    IF fault THEN [exc |-> "StoreError", val |-> None]
    ELSE [exc |-> "",
          val |-> IF user_id \in DOMAIN db /\ db[user_id] # NoRow
                  THEN user_id ELSE None]

\* user.api_key: AttributeError on None, else the column (None when no key).
user_api_key(db, user) ==
    IF user = None THEN [exc |-> "AttributeError", val |-> None]
    ELSE [exc |-> "", val |-> db[user]]

\* User.query.filter_by(api_key=key_hash).first(): the first row holding
\* key_hash, or None; raises when the store is faulty.
User_query_filter_by_first(db, key_hash, fault) ==
    IF fault THEN [exc |-> "StoreError", val |-> None]
    ELSE LET rows == {u \in DOMAIN db : db[u] = key_hash}
         IN [exc |-> "",
             val |-> IF rows = {} THEN None
                     ELSE CHOOSE u \in rows : \A v \in rows : u <= v]

\* A mutant: equal lengths taken for equality (every hexdigest has 64 chars).
compare_digest_len(a, b) ==
    IF b = None THEN [exc |-> "TypeError", val |-> FALSE]
    ELSE [exc |-> "", val |-> TRUE]

\* secrets.compare_digest(a, b): TypeError unless both are str.
compare_digest(a, b) ==
    IF b = None THEN [exc |-> "TypeError", val |-> FALSE]
    ELSE [exc |-> "", val |-> (a = b)]

validate_api_key(db, user_id, api_key, fault) ==
    IF user_id = None \/ api_key = Empty
    THEN [exc |-> "", val |-> FALSE, queries |-> 0]
    ELSE LET submitted_hash == sha256(api_key)
             got == User_query_get(db, user_id, fault)
             user_hash == IF got.exc = "" THEN user_api_key(db, got.val) ELSE got
         IN IF user_hash.exc # ""
            THEN [exc |-> "", val |-> FALSE, queries |-> 1]
            ELSE LET cmp == compare_digest(submitted_hash, user_hash.val)
                 IN [exc |-> cmp.exc, val |-> cmp.val, queries |-> 1]

\* A mutant: the table is searched for the key as submitted.
user_for_api_key_raw(db, api_key, fault) ==
    IF api_key # Empty
    THEN LET r == User_query_filter_by_first(db, api_key, fault)
         IN [exc |-> r.exc, val |-> r.val, query |-> api_key, queries |-> 1]
    ELSE [exc |-> "", val |-> None, query |-> None, queries |-> 0]

\* A mutant: .one() for .first(), which raises when no row matches.
user_for_api_key_one(db, api_key, fault) ==
    IF api_key # Empty
    THEN LET key_hash == sha256(api_key)
             r == User_query_filter_by_first(db, key_hash, fault)
         IN [exc |-> IF r.exc = "" /\ r.val = None THEN "NoResultFound" ELSE r.exc,
             val |-> r.val, query |-> key_hash, queries |-> 1]
    ELSE [exc |-> "", val |-> None, query |-> None, queries |-> 0]

\* A mutant: the user resolved for a key by the previous request is reused.
user_for_api_key_cached(db, api_key, fault) ==
    IF api_key # Empty
    THEN IF last.op = "request" /\ last.x_api_key = api_key /\ last.user # None
         THEN [exc |-> "", val |-> last.user, query |-> None, queries |-> 0]
         ELSE LET key_hash == sha256(api_key)
                  r == User_query_filter_by_first(db, key_hash, fault)
              IN [exc |-> r.exc, val |-> r.val, query |-> key_hash, queries |-> 1]
    ELSE [exc |-> "", val |-> None, query |-> None, queries |-> 0]

user_for_api_key(db, api_key, fault) ==
    IF api_key # Empty
    THEN LET key_hash == sha256(api_key)
             r == User_query_filter_by_first(db, key_hash, fault)
         IN [exc |-> r.exc, val |-> r.val, query |-> key_hash, queries |-> 1]
    ELSE [exc |-> "", val |-> None, query |-> None, queries |-> 0]

\* A mutant: a JWT validator that accepts a non-empty header as user 1.
user_from_jwt_accepts(authorization_header) ==
    IF authorization_header # Empty THEN 1 ELSE None

user_from_jwt(authorization_header) == None

\* The record of one call: its arguments and what it did.
Idle ==
    [op |-> "none", url |-> 0, Authorization |-> Absent, x_api_key |-> Absent,
     user_id |-> None, api_key |-> Empty,
     exc |-> "", val |-> FALSE, user |-> None,
     jwt_user |-> None, key_user |-> None, sources |-> <<>>,
     query |-> None, queries |-> 0, raised |-> FALSE,
     invoked |-> 0, current_user |-> None,
     message |-> "", status_code |-> 0, http_status |-> 0]

\* A mutant: the view function is called whatever user was resolved.
decorated_function_nocheck(db, req, fault) ==
    LET hasJwt == req.Authorization # Absent
        hasKey == req.x_api_key # Absent
        jwt == IF hasJwt THEN user_from_jwt(req.Authorization) ELSE None
        look == IF hasKey THEN user_for_api_key(db, req.x_api_key, fault)
                ELSE [exc |-> "", val |-> None, query |-> None, queries |-> 0]
        user == IF hasKey THEN look.val ELSE jwt
        call == [Idle EXCEPT !.op = "request", !.url = req.url,
                    !.Authorization = req.Authorization,
                    !.x_api_key = req.x_api_key,
                    !.jwt_user = jwt, !.key_user = look.val,
                    !.sources = (IF hasJwt THEN <<"jwt">> ELSE <<>>)
                                \o (IF hasKey THEN <<"api_key">> ELSE <<>>),
                    !.query = look.query, !.queries = look.queries,
                    !.raised = (look.exc = "StoreError")]
    IN IF look.exc # ""
       THEN [call EXCEPT !.exc = look.exc]
       ELSE [call EXCEPT !.user = user, !.invoked = 1, !.current_user = user]

\* requires_auth(f)'s decorated_function, for the headers of req.
decorated_function(db, req, fault) ==
    LET hasJwt == req.Authorization # Absent
        hasKey == req.x_api_key # Absent
        jwt == IF hasJwt THEN user_from_jwt(req.Authorization) ELSE None
        look == IF hasKey THEN user_for_api_key(db, req.x_api_key, fault)
                ELSE [exc |-> "", val |-> None, query |-> None, queries |-> 0]
        user == IF hasKey THEN look.val ELSE jwt
        call == [Idle EXCEPT !.op = "request", !.url = req.url,
                    !.Authorization = req.Authorization,
                    !.x_api_key = req.x_api_key,
                    !.jwt_user = jwt, !.key_user = look.val,
                    !.sources = (IF hasJwt THEN <<"jwt">> ELSE <<>>)
                                \o (IF hasKey THEN <<"api_key">> ELSE <<>>),
                    !.query = look.query, !.queries = look.queries,
                    !.raised = (look.exc = "StoreError")]
    IN IF look.exc # ""
       THEN [call EXCEPT !.exc = look.exc]
       ELSE IF user = None
       THEN LET e == AuthError(AuthMessage)
            IN [call EXCEPT !.exc = "AuthError", !.message = e.message,
                            !.status_code = e.status_code]
       ELSE [call EXCEPT !.user = user, !.invoked = 1, !.current_user = user]

\* The routing layer: the status the client sees for a call of a protected view.
http_response(call) ==
    IF call.exc = "AuthError" THEN Forbidden
    ELSE IF call.exc # "" THEN ServerError
    ELSE Ok

Requests ==
    [url : Urls, Authorization : JwtHeaders, x_api_key : KeyHeaders]

Init ==
    /\ store = [u \in UserIds |-> NoRow]
    /\ issued = {}
    /\ last = Idle
    /\ fresh = FALSE

\* The application adds a user who has no key yet.
CreateUser(u) ==
    /\ store[u] = NoRow
    /\ store' = [store EXCEPT ![u] = None]
    /\ fresh' = FALSE
    /\ UNCHANGED <<issued, last>>

\* The application issues (or replaces) the key of user u.
IssueKey(u) ==
    /\ store[u] # NoRow
    /\ \E tok \in Secrets \ issued :
          /\ store' = [store EXCEPT ![u] = generate_api_key(tok).hashed_key]
          /\ issued' = issued \cup {generate_api_key(tok).api_key}
    /\ fresh' = FALSE
    /\ UNCHANGED last

\* The application removes user u.
RemoveUser(u) ==
    /\ store[u] # NoRow
    /\ store' = [store EXCEPT ![u] = NoRow]
    /\ fresh' = FALSE
    /\ UNCHANGED <<issued, last>>

\* A client calls a protected view.
Request(req, fault) ==
    /\ LET call == decorated_function(store, req, fault)
       IN last' = [call EXCEPT !.http_status = http_response(call)]
    /\ fresh' = TRUE
    /\ UNCHANGED <<store, issued>>

\* validate_api_key(user_id, api_key) is called.
ValidateApiKey(user_id, api_key, fault) ==
    /\ LET r == validate_api_key(store, user_id, api_key, fault)
       IN last' = [Idle EXCEPT !.op = "validate", !.user_id = user_id,
                      !.api_key = api_key, !.exc = r.exc, !.val = r.val,
                      !.queries = r.queries,
                      !.raised = (fault /\ r.queries > 0)]
    /\ fresh' = TRUE
    /\ UNCHANGED <<store, issued>>

\* user_for_api_key(api_key) is called.
UserForApiKey(api_key, fault) ==
    /\ LET r == user_for_api_key(store, api_key, fault)
       IN last' = [Idle EXCEPT !.op = "lookup", !.api_key = api_key,
                      !.exc = r.exc, !.user = r.val, !.query = r.query,
                      !.queries = r.queries,
                      !.raised = (r.exc = "StoreError")]
    /\ fresh' = TRUE
    /\ UNCHANGED <<store, issued>>

Next ==
    \/ \E u \in UserIds : CreateUser(u)
    \/ \E u \in UserIds : IssueKey(u)
    \/ \E u \in UserIds : RemoveUser(u)
    \/ \E req \in Requests : Request(req, FALSE)
    \/ \E user_id \in {None} \cup UserIds, api_key \in {Empty} \cup Secrets :
          ValidateApiKey(user_id, api_key, FALSE)
    \/ \E api_key \in {Empty} \cup Secrets : UserForApiKey(api_key, FALSE)

\* The store answers every query.
Spec == Init /\ [][Next]_vars

NextFault ==
    \/ \E u \in UserIds : CreateUser(u)
    \/ \E u \in UserIds : IssueKey(u)
    \/ \E u \in UserIds : RemoveUser(u)
    \/ \E req \in Requests, fault \in BOOLEAN : Request(req, fault)
    \/ \E user_id \in {None} \cup UserIds, api_key \in {Empty} \cup Secrets,
          fault \in BOOLEAN : ValidateApiKey(user_id, api_key, fault)
    \/ \E api_key \in {Empty} \cup Secrets, fault \in BOOLEAN :
          UserForApiKey(api_key, fault)

\* The store may raise on a query.
SpecFault == Init /\ [][NextFault]_vars

(***************************************************************************)
(* The claims.  fresh says that the store has not changed since the call   *)
(* recorded in last, so that store is the store that call ran against.     *)
(***************************************************************************)

\* The users whose stored hash is the digest of secret.
KeyHolders(db, secret) ==
    IF secret \in Secrets THEN {u \in UserIds : db[u] = sha256(secret)} ELSE {}

IsRequest == fresh /\ last.op = "request"

\* C1: the view function wrapped by requires_auth is not called when no user
\* was resolved (AuthError is raised instead), and is called exactly once,
\* with current_user the resolved user, when one was; a user is resolved
\* exactly when the store holds one for the submitted key.
C1_GuardGating ==
    IsRequest =>
       /\ last.user = None => last.invoked = 0 /\ last.exc = "AuthError"
       /\ last.user # None =>
             /\ last.invoked = 1 /\ last.exc = ""
             /\ last.current_user = last.user
       /\ KeyHolders(store, last.x_api_key) = {} => last.invoked = 0
       /\ KeyHolders(store, last.x_api_key) # {} =>
             /\ last.invoked = 1
             /\ last.current_user \in KeyHolders(store, last.x_api_key)

C1_Witness ==
    /\ IsRequest /\ last.invoked = 1
    /\ last.current_user \in UserIds
    /\ store[last.current_user] = sha256(last.x_api_key)

C3_LookupCorrect ==
    fresh /\ last.op = "lookup" =>
       /\ last.exc = ""
       /\ \A P \in UserIds :
             last.user = P <=> P \in KeyHolders(store, last.api_key)
       /\ KeyHolders(store, last.api_key) = {} => last.user = None
       /\ last.api_key # Empty =>
             /\ last.query = generate_api_key(last.api_key).hashed_key
             /\ last.query \notin Secrets
       /\ last.api_key = Empty => last.queries = 0

C3_Witness ==
    /\ fresh /\ last.op = "lookup"
    /\ last.api_key \in issued
    /\ store[1] = generate_api_key(last.api_key).hashed_key
    /\ last.user = 1

\* C4: for a pair generated by generate_api_key and a user whose stored hash
\* is the pair's hash, validate_api_key(user id, candidate) is true for the
\* pair's secret and false for every other candidate.
C4_RoundTrip ==
    fresh /\ last.op = "validate" =>
       \A tok \in issued :
          (/\ last.user_id \in UserIds
           /\ store[last.user_id] = generate_api_key(tok).hashed_key)
          => /\ last.exc = ""
             /\ last.val = (last.api_key = generate_api_key(tok).api_key)

C4_Witness ==
    /\ fresh /\ last.op = "validate" /\ last.val
    /\ last.api_key \in issued
    /\ last.user_id \in UserIds

\* The three causes of C5: no credential at all, an empty key, a key no
\* stored user holds.
C5_Cause ==
    \/ last.x_api_key = Absent /\ last.Authorization = Absent
    \/ last.x_api_key = Empty
    \/ last.x_api_key \in Secrets /\ KeyHolders(store, last.x_api_key) = {}

\* C5: whichever of the three causes holds, the guard raises AuthError with
\* the one fixed message and the one status code.
C5_UniformFailure ==
    IsRequest /\ C5_Cause =>
       /\ last.exc = "AuthError"
       /\ last.message = AuthMessage
       /\ last.status_code = DefaultStatus
       /\ last.invoked = 0

C5_Witness ==
    /\ IsRequest
    /\ last.x_api_key \in Secrets /\ KeyHolders(store, last.x_api_key) = {}
    /\ last.exc = "AuthError" /\ last.message = AuthMessage

\* C6: validate_api_key and user_for_api_key return (a boolean, a user or
\* None) and never raise, whatever the arguments and the rows of the store.
C6_NeverRaises ==
    fresh /\ last.op \in {"validate", "lookup"} => last.exc = ""

\* C7: when the store raises during the lookup of a call, the caller sees
\* what an invalid credential gives: AuthError from the guard with the view
\* function not called, False from validate_api_key, None from
\* user_for_api_key; and the store is queried once.
C7_StoreFaultAbsorbed ==
    fresh /\ last.raised =>
       /\ last.queries = 1
       /\ last.op = "request" =>
             /\ last.exc = "AuthError" /\ last.message = AuthMessage
             /\ last.invoked = 0
       /\ last.op = "validate" => last.exc = "" /\ last.val = FALSE
       /\ last.op = "lookup" => last.exc = "" /\ last.user = None

\* What the client can tell of a call.
Outcome(call) ==
    <<call.exc, call.message, call.status_code, call.invoked, call.current_user>>

\* C8, the state part: the outcome of a request is the one the store gives
\* at the time of the call.
C8_DecidedByStore ==
    IsRequest =>
       /\ last.exc = "" <=> KeyHolders(store, last.x_api_key) # {}
       /\ last.exc = "" => store[last.current_user] = sha256(last.x_api_key)
       /\ last.exc # "" => last.exc = "AuthError"

\* C8, the step part: a call changes neither the rows nor the set of issued
\* keys, and a request repeated on an unchanged store has the same outcome.
C8_Step ==
    /\ fresh' => store' = store /\ issued' = issued
    /\ (/\ fresh /\ fresh'
        /\ last.op = "request" /\ last'.op = "request"
        /\ last'.url = last.url
        /\ last'.Authorization = last.Authorization
        /\ last'.x_api_key = last.x_api_key)
       => Outcome(last') = Outcome(last) /\ last'.http_status = last.http_status

\* C8: authorization is read-only, idempotent and uncached.
C8_ReadOnlyUncached == [](C8_DecidedByStore) /\ [][C8_Step]_vars

\* A key that was issued resolves no user once replaced or removed.
C8_Witness ==
    /\ IsRequest
    /\ last.x_api_key \in issued
    /\ KeyHolders(store, last.x_api_key) = {}
    /\ last.exc = "AuthError"

\* C10: the JWT source is tried before the API-key source, the API-key source
\* only after the JWT source gave no user; the request fails only when no
\* source gave a user; and the outcome is that of the same request without
\* its Authorization header.
C10_SourceOrder ==
    IsRequest =>
       /\ last.Authorization # Absent =>
             Len(last.sources) >= 1 /\ last.sources[1] = "jwt"
       /\ (\E i \in 1..Len(last.sources) : last.sources[i] = "api_key") =>
             /\ last.jwt_user = None
             /\ last.sources[Len(last.sources)] = "api_key"
       /\ last.exc = "AuthError" <=>
             (last.jwt_user = None /\ last.key_user = None)
       /\ (last.jwt_user # None \/ last.key_user # None) =>
             /\ last.exc = "" /\ last.invoked = 1
             /\ last.current_user \in {last.jwt_user, last.key_user} \ {None}
       /\ Outcome(last) =
             Outcome(decorated_function(store,
                        [url |-> last.url, Authorization |-> Absent,
                         x_api_key |-> last.x_api_key], FALSE))

C10_Witness ==
    /\ IsRequest
    /\ last.Authorization = 1
    /\ last.sources = <<"jwt", "api_key">>
    /\ last.jwt_user = None /\ last.key_user \in UserIds
    /\ last.exc = "" /\ last.current_user = last.key_user

====
